---- MODULE Spec2Model ----
(***************************************************************************)
(* typed-function: runtime multiple dispatch on signatures.                *)
(*                                                                         *)
(* Texts (signatures, type names) are sequences of one-character strings,  *)
(* so that split, trim, indexOf, lastIndexOf, replace and toLowerCase are  *)
(* computed as the JavaScript String methods compute them.                 *)
(* A type test (a predicate on values) is modelled by its extension over   *)
(* the finite universe Values.                                             *)
(***************************************************************************)
EXTENDS Integers, Sequences, FiniteSets, TLC

VARIABLES types, ignore, conversions, dispatchers, last

vars == <<types, ignore, conversions, dispatchers, last>>

----------------------------------------------------------------------------
(* Bounds of the model *)

MaxInst == 2        \* instances in existence (the module's own, and create())
MaxOps == 3         \* state-changing operations per behaviour of Spec
MaxArgs == 4        \* longest argument list of a call in SpecDispatch

----------------------------------------------------------------------------
(* JavaScript String methods on texts *)

Min(S) == CHOOSE x \in S : \A y \in S : x <= y
Max(S) == CHOOSE x \in S : \A y \in S : x >= y

\* the positions (0-based) at which pat occurs in s
Occurrences(s, pat) ==
  { i \in 0..(Len(s) - Len(pat)) : SubSeq(s, i + 1, i + Len(pat)) = pat }

\* String.prototype.indexOf
IndexOf(s, pat) ==
  IF Occurrences(s, pat) = {} THEN -1 ELSE Min(Occurrences(s, pat))

\* String.prototype.lastIndexOf
LastIndexOf(s, pat) ==
  IF Occurrences(s, pat) = {} THEN -1 ELSE Max(Occurrences(s, pat))

\* String.prototype.split with a one-character separator: never the empty
\* array, ''.split(',') is ['']
RECURSIVE Split(_, _)
Split(s, sep) ==
  LET i == IndexOf(s, <<sep>>) IN
  IF i = -1 THEN <<s>>
  ELSE <<SubSeq(s, 1, i)>> \o Split(SubSeq(s, i + 2, Len(s)), sep)

\* String.prototype.trim (the only white space of the model is the blank)
RECURSIVE trim(_)
trim(str) ==
  IF str = <<>> THEN str
  ELSE IF Head(str) = " " THEN trim(Tail(str))
  ELSE IF str[Len(str)] = " " THEN trim(SubSeq(str, 1, Len(str) - 1))
  ELSE str

\* str.replace(/ /g, '')
RECURSIVE RemoveBlanks(_)
RemoveBlanks(s) ==
  IF s = <<>> THEN s
  ELSE IF Head(s) = " " THEN RemoveBlanks(Tail(s))
  ELSE <<Head(s)>> \o RemoveBlanks(Tail(s))

\* str.replace(/^.../, ''): the unescaped dots match ANY three characters at
\* the start of the text; a text shorter than three characters has no match
ReplaceLeading3(s) ==
  IF Len(s) >= 3 THEN SubSeq(s, 4, Len(s)) ELSE s

UpperChars == <<"A", "B", "C", "D", "E", "F", "G", "H", "I", "J", "K", "L", "M",
                "N", "O", "P", "Q", "R", "S", "T", "U", "V", "W", "X", "Y", "Z">>
LowerChars == <<"a", "b", "c", "d", "e", "f", "g", "h", "i", "j", "k", "l", "m",
                "n", "o", "p", "q", "r", "s", "t", "u", "v", "w", "x", "y", "z">>

\* String.prototype.toLowerCase
ToLowerCase(s) ==
  [ i \in 1..Len(s) |->
      IF \E k \in 1..Len(UpperChars) : UpperChars[k] = s[i]
      THEN LowerChars[CHOOSE k \in 1..Len(UpperChars) : UpperChars[k] = s[i]]
      ELSE s[i] ]

\* Array.prototype.join
RECURSIVE Join(_, _)
Join(list, sep) ==
  IF list = <<>> THEN <<>>
  ELSE IF Len(list) = 1 THEN list[1]
  ELSE list[1] \o sep \o Join(Tail(list), sep)

----------------------------------------------------------------------------
(* Type names and signature texts *)

number == <<"n", "u", "m", "b", "e", "r">>
string == <<"s", "t", "r", "i", "n", "g">>
boolean == <<"b", "o", "o", "l", "e", "a", "n">>
Function == <<"F", "u", "n", "c", "t", "i", "o", "n">>
Array == <<"A", "r", "r", "a", "y">>
Date == <<"D", "a", "t", "e">>
RegExp == <<"R", "e", "g", "E", "x", "p">>
Object == <<"O", "b", "j", "e", "c", "t">>
null == <<"n", "u", "l", "l">>
undefined == <<"u", "n", "d", "e", "f", "i", "n", "e", "d">>
any == <<"a", "n", "y">>
unknown == <<"u", "n", "k", "n", "o", "w", "n">>
unnamed == <<"u", "n", "n", "a", "m", "e", "d">>

----------------------------------------------------------------------------
(* Values: JavaScript literals, and what typeof / instanceof say of them *)

Values == {"1", "2", "3", "'a'", "true", "undefined", "null"}

TypeOf(x) ==
  CASE x \in {"1", "2", "3"} -> "number"
    [] x = "'a'" -> "string"
    [] x = "true" -> "boolean"
    [] x = "undefined" -> "undefined"
    [] x = "null" -> "object"

\* the extension of a predicate on values
Extension(P(_)) == { x \in Values : P(x) }

\* function ok (x) { return true }
ok == Extension(LAMBDA x : TRUE)

\* var _types = [...] of create(): the built-in types, in registration order
\* (no value of the model is a function, an array, a Date or a RegExp)
BuiltinTypes ==
  << [name |-> number,    test |-> Extension(LAMBDA x : TypeOf(x) = "number")],
     [name |-> string,    test |-> Extension(LAMBDA x : TypeOf(x) = "string")],
     [name |-> boolean,   test |-> Extension(LAMBDA x : TypeOf(x) = "boolean")],
     [name |-> Function,  test |-> Extension(LAMBDA x : TypeOf(x) = "function")],
     [name |-> Array,     test |-> {}],
     [name |-> Date,      test |-> {}],
     [name |-> RegExp,    test |-> {}],
     [name |-> Object,    test |-> Extension(LAMBDA x : TypeOf(x) = "object")],
     [name |-> null,      test |-> Extension(LAMBDA x : x = "null")],
     [name |-> undefined, test |-> Extension(LAMBDA x : x = "undefined")],
     [name |-> any,       test |-> ok] >>

----------------------------------------------------------------------------
(* Signature compilation: findTest, parseParam, parseParams *)
(* A value used more than once in a function of the source is a parameter   *)
(* of a helper operator here, where the source has a local variable.        *)

\* Array.prototype.find, as the index of the element found (0: none)
FindIndex(list, P(_)) ==
  IF \E k \in 1..Len(list) : P(list[k])
  THEN Min({ k \in 1..Len(list) : P(list[k]) })
  ELSE 0

NoError == [type |-> "none", unknownType |-> <<>>, hinted |-> FALSE, hint |-> <<>>]

\* the last entry of the name instead of the first
\* the return or throw of findTest, entry and hint being the indices found
FoundTest(registry, type, entry, hint) ==
  IF entry # 0
  THEN [err |-> NoError, test |-> registry[entry].test]
  ELSE [err |-> [type |-> "TypeError", unknownType |-> type,
                 hinted |-> hint # 0,
                 hint |-> IF hint # 0 THEN registry[hint].name ELSE <<>>],
        test |-> {}]

\* the last entry of the name instead of the first
findTestLast(registry, type) ==
  FoundTest(registry, type,
            IF \E k \in 1..Len(registry) : registry[k].name = type
            THEN Max({ k \in 1..Len(registry) : registry[k].name = type })
            ELSE 0,
            FindIndex(registry, LAMBDA e : ToLowerCase(e.name) = ToLowerCase(type)))

\* findTest: the test of the first entry whose name is exactly `type`;
\* otherwise a TypeError, with a hint when a name equals it ignoring case
findTest(registry, type) ==
  FoundTest(registry, type,
            FindIndex(registry, LAMBDA e : e.name = type),
            FindIndex(registry, LAMBDA e : ToLowerCase(e.name) = ToLowerCase(type)))

notEmpty(str) == str # <<>>

notIgnore(ignored, type) == \A k \in 1..Len(ignored) : ignored[k] # type

\* list.map(trim)
TrimAll(list) == [k \in 1..Len(list) |-> trim(list[k])]

\* the error at index k of a sequence of results (0: none failed)
ErrorAt(results, k) == IF k = 0 THEN NoError ELSE results[k].err

\* the error of the first failing element of a sequence of results
FirstError(results) ==
  ErrorAt(results, FindIndex(results, LAMBDA r : r.err.type # "none"))

\* a result: the error thrown, or else the value returned
Result(err, value, nothing) ==
  IF err.type # "none" THEN [err |-> err, test |-> nothing]
  ELSE [err |-> NoError, test |-> value]

\* param.split('|').map(trim).filter(notEmpty).filter(notIgnore)
TypeNames(ignored, param) ==
  SelectSeq(SelectSeq(TrimAll(Split(param, "|")), notEmpty),
            LAMBDA t : notIgnore(ignored, t))

\* the branches of parseParam on the number of type names, found being the
\* results of findTest for them in order
ParamTest(found) ==
  IF Len(found) = 0 THEN [err |-> NoError, test |-> ok]
  ELSE IF Len(found) = 1 THEN found[1]
  ELSE IF Len(found) = 2
       THEN Result(FirstError(found), found[1].test \cup found[2].test, {})
  ELSE Result(FirstError(found),
              UNION { found[k].test : k \in 1..Len(found) }, {})

\* types.map(findTest)
FindTests(registry, typeNames) ==
  [k \in 1..Len(typeNames) |-> findTest(registry, typeNames[k])]

\* parseParam: the test of one parameter, like 'number' or 'string | Function'
parseParam(registry, ignored, param) ==
  ParamTest(FindTests(registry, TypeNames(ignored, param)))

\* params.map(parseParam)
ParseEach(registry, ignored, params) ==
  [k \in 1..Len(params) |-> parseParam(registry, ignored, params[k])]

\* arguments[i], 0-based: reading past the end yields undefined
Arg(args, i) == IF i < Len(args) THEN args[i + 1] ELSE "undefined"

\* initial(arr): arr.splice(0, arr.length - 1) returns all but the last item
\* and leaves arr holding the last item only
initial(arr) == SubSeq(arr, 1, Len(arr) - 1)

AfterInitial(arr) == SubSeq(arr, Len(arr), Len(arr))

\* last(arr)
lastItem(arr) == arr[Len(arr)]

\* the position check left out
NeverMisplaced(signature, varArgsIndex) == FALSE

\* the position check of parseParams: a comma after the first "..."
VarArgsMisplaced(signature, varArgsIndex) ==
  LastIndexOf(signature, <<",">>) > varArgsIndex

NoTest == [kind |-> "none", tests |-> <<>>, lastTest |-> {}, varIndex |-> 0]

Tests(parsed) == [k \in 1..Len(parsed) |-> parsed[k].test]

\* the variadic branch of parseParams, the parameters being parsed
VarArgsTest(parsed, lastParsed) ==
  Result(FirstError(Append(parsed, lastParsed)),
         [kind |-> "varArgs", tests |-> Tests(parsed),
          lastTest |-> lastParsed.test, varIndex |-> Len(parsed)],
         NoTest)

\* the branches of parseParams without variable arguments; the branch for
\* no parameter parses nothing
FixedTest(params, parsed) ==
  IF Len(params) = 0
  THEN [err |-> NoError,
        test |-> [kind |-> "args0", tests |-> <<>>, lastTest |-> {}, varIndex |-> 0]]
  ELSE Result(FirstError(parsed),
              [kind |-> IF Len(params) = 1 THEN "args1"
                        ELSE IF Len(params) = 2 THEN "args2" ELSE "argsN",
               tests |-> Tests(parsed), lastTest |-> {}, varIndex |-> 0],
              NoTest)

\* parseParams after its first statements: params and varArgsIndex are set
ParseSignature(registry, ignored, signature, params, varArgsIndex) ==
  IF varArgsIndex # -1
  THEN IF VarArgsMisplaced(signature, varArgsIndex)
       THEN [err |-> [type |-> "SyntaxError", unknownType |-> <<>>,
                      hinted |-> FALSE, hint |-> <<>>],
             test |-> NoTest]
       ELSE VarArgsTest(ParseEach(registry, ignored, initial(params)),
                        parseParam(registry, ignored,
                                   ReplaceLeading3(lastItem(AfterInitial(params)))))
  ELSE FixedTest(params, ParseEach(registry, ignored, params))

\* parseParams: the compiled test of a signature, or the error thrown.
\* kind names the branch whose closure is returned.
parseParams(registry, ignored, signature) ==
  ParseSignature(registry, ignored, signature,
                 TrimAll(Split(signature, ",")),
                 IndexOf(signature, <<".", ".", ".">>))

\* testVarArgs starting one argument too late
testVarArgsSkipFirst(test, args) ==
  \A i \in (test.varIndex + 1)..(Len(args) - 1) : Arg(args, i) \in test.lastTest

\* testVarArgs of the variadic branch
testVarArgs(test, args) ==
  \A i \in test.varIndex..(Len(args) - 1) : Arg(args, i) \in test.lastTest

\* testArgs without the comparison of the number of fixed arguments
testArgsAnyLength(test, args) ==
  CASE test.kind = "varArgs" ->
         /\ \A i \in 0..(Len(test.tests) - 1) : Arg(args, i) \in test.tests[i + 1]
         /\ testVarArgs(test, args)
         /\ Len(args) >= test.varIndex + 1
    [] test.kind = "args0" -> Len(args) = 0
    [] OTHER ->
         \A i \in 0..(Len(test.tests) - 1) : Arg(args, i) \in test.tests[i + 1]

\* testArgs: the closure parseParams returned, applied to an argument list
testArgs(test, args) ==
  CASE test.kind = "varArgs" ->
         /\ \A i \in 0..(Len(test.tests) - 1) : Arg(args, i) \in test.tests[i + 1]
         /\ testVarArgs(test, args)
         /\ Len(args) >= test.varIndex + 1
    [] test.kind = "args0" -> Len(args) = 0
    [] test.kind = "args1" ->
         Arg(args, 0) \in test.tests[1] /\ Len(args) = 1
    [] test.kind = "args2" ->
         /\ Arg(args, 0) \in test.tests[1]
         /\ Arg(args, 1) \in test.tests[2]
         /\ Len(args) = 2
    [] test.kind = "argsN" ->
         /\ \A i \in 0..(Len(test.tests) - 1) : Arg(args, i) \in test.tests[i + 1]
         /\ Len(args) = Len(test.tests)

----------------------------------------------------------------------------
(* Dispatchers: createTypedFunction, the produced callable, createError *)

\* createVarArgPreProcess: the number of parameters before the last one
createVarArgPreProcess(signature) == Len(Split(signature, ",")) - 1

\* one element of defs, for a signature that compiled
Definition(signature, parsed, fn) ==
  [signature |-> RemoveBlanks(signature),
   varArg |-> IndexOf(signature, <<".", ".", ".">>) # -1,
   offset |-> createVarArgPreProcess(signature),
   test |-> parsed.test,
   fn |-> fn]

\* fn.signatures: the implementation of each normalized text, the last
\* definition of a text overwriting the earlier ones
SignaturesOf(defs) ==
  [t \in { defs[k].signature : k \in 1..Len(defs) } |->
     defs[Max({ k \in 1..Len(defs) : defs[k].signature = t })].fn]

\* the typed function returned, or the error of the first signature that
\* failed to compile
TypedFunction(inst, name, err, defs) ==
  IF err.type # "none"
  THEN [err |-> err,
        fn |-> [inst |-> inst, name |-> name, defs |-> <<>>, signatures |-> <<>>]]
  ELSE [err |-> NoError,
        fn |-> [inst |-> inst, name |-> name, defs |-> defs,
                signatures |-> SignaturesOf(defs)]]

\* the loop of createTypedFunction: one definition per signature
Definitions(signatures, parsed) ==
  [k \in 1..Len(signatures) |-> Definition(signatures[k], parsed[k], k)]

\* signatures.map(parseParams), in the order of the loop
ParseAll(registry, ignored, signatures) ==
  [k \in 1..Len(signatures) |-> parseParams(registry, ignored, signatures[k])]

\* createTypedFunction after the parsing of the signatures
BuildFrom(inst, name, signatures, parsed) ==
  TypedFunction(inst, name, FirstError(parsed), Definitions(signatures, parsed))

\* createTypedFunction(name, signatures): signatures is the sequence of the
\* object's own keys in iteration order, the implementation of the k-th key
\* is named k.  The first signature that fails to compile aborts the build.
createTypedFunction(registry, ignored, inst, name, signatures) ==
  BuildFrom(inst, name, signatures, ParseAll(registry, ignored, signatures))

\* the last accepting entry reported instead of the first
ActualTypeLast(registry, arg) ==
  IF \E k \in 1..Len(registry) : arg \in registry[k].test
  THEN registry[Max({ k \in 1..Len(registry) : arg \in registry[k].test })].name
  ELSE unknown

\* entry ? entry.name : 'unknown'
EntryName(registry, entry) ==
  IF entry # 0 THEN registry[entry].name ELSE unknown

\* the name createError reports for one argument: the first entry of the
\* registry whose test accepts it
ActualType(registry, arg) ==
  EntryName(registry, FindIndex(registry, LAMBDA e : arg \in e.test))

\* createError(name, args): the two variable parts of the message
createError(registry, name, args) ==
  [typesList |-> Join([k \in 1..Len(args) |-> ActualType(registry, args[k])],
                      <<",", " ">>),
   function |-> IF name # <<>> THEN name ELSE unnamed]

\* the scan keeping the last match instead of returning at the first
SelectLastDefinition(defs, args) ==
  IF \E k \in 1..Len(defs) : testArgs(defs[k].test, args)
  THEN Max({ k \in 1..Len(defs) : testArgs(defs[k].test, args) })
  ELSE 0

\* the index of the definition the scan of fn selects (0: none matches)
SelectDefinition(defs, args) ==
  FindIndex(defs, LAMBDA def : testArgs(def.test, args))

\* defs[i].preprocess(arguments): the trailing arguments collected in a list
Forwarded(def, args) ==
  IF def.varArg
  THEN [head |-> SubSeq(args, 1, def.offset),
        rest |-> SubSeq(args, def.offset + 1, Len(args)), packed |-> TRUE]
  ELSE [head |-> args, rest |-> <<>>, packed |-> FALSE]

NoMessage == [typesList |-> <<>>, function |-> <<>>]

\* the return or throw of fn, i being the index the scan stopped at
Outcome(d, registry, args, i) ==
  IF i # 0
  THEN [err |-> "none", fn |-> d.defs[i].fn,
        applied |-> Forwarded(d.defs[i], args), message |-> NoMessage]
  ELSE [err |-> "Error", fn |-> 0,
        applied |-> [head |-> <<>>, rest |-> <<>>, packed |-> FALSE],
        message |-> createError(registry, d.name, args)]

\* fn(...args): the outcome of calling dispatcher d while its instance's
\* registry is `registry`
CallOutcome(d, registry, args) ==
  Outcome(d, registry, args, SelectDefinition(d.defs, args))

----------------------------------------------------------------------------
(* Inputs *)

int == <<"i", "n", "t">>
IntCapital == <<"I", "n", "t">>
fnName == <<"f", "n">>

\* arguments of addType: a falsy value, objects lacking a property, and
\* well-formed types (a new name, a new name again with another test, and
\* the built-in name number with another test)
TypeInputs ==
  { [value |-> "null", typeofName |-> "undefined", name |-> <<>>,
     typeofTest |-> "undefined", test |-> {}],
    [value |-> "object", typeofName |-> "string", name |-> int,
     typeofTest |-> "undefined", test |-> {}],
    [value |-> "object", typeofName |-> "string", name |-> int,
     typeofTest |-> "function", test |-> {"1", "2", "3"}],
    [value |-> "object", typeofName |-> "string", name |-> int,
     typeofTest |-> "function", test |-> {"'a'"}],
    [value |-> "object", typeofName |-> "string", name |-> number,
     typeofTest |-> "function", test |-> {"'a'"}] }

\* compose.conversions = [...] of the example
ExampleConversions ==
  << [from |-> boolean, to |-> number, convert |-> "+x"],
     [from |-> boolean, to |-> string, convert |-> "x + ''"],
     [from |-> number,  to |-> string, convert |-> "x + ''"] >>

\* arguments of addConversion: well-formed, and lacking convert
ConversionInputs ==
  { [value |-> "object", typeofFrom |-> "string", from |-> string,
     typeofTo |-> "string", to |-> number,
     typeofConvert |-> "function", convert |-> "+x"],
    [value |-> "object", typeofFrom |-> "string", from |-> string,
     typeofTo |-> "string", to |-> number,
     typeofConvert |-> "undefined", convert |-> "undefined"] }

\* the name given to the factory: '' in its one-argument form
Names == { <<>>, fnName }

comma == <<",", " ">>
dots == <<".", ".", ".">>
Strnig == <<"S", "t", "r", "n", "i", "g">>
String == <<"S", "t", "r", "i", "n", "g">>

\* signature maps of SpecDispatch, as the sequence of their keys
SigMaps ==
  { << <<>> >>,
    <<any>>, <<number>>, <<string>>, <<undefined>>,
    <<string \o comma \o number>>,
    <<string \o comma \o any>>,
    <<number \o <<"|">> \o string \o comma \o boolean \o comma \o any>>,
    <<string \o comma \o number \o dots>>,
    <<string \o comma \o dots \o number>>,
    <<dots \o number>>,
    <<number \o dots>>,
    <<number \o dots \o comma \o string>>,
    <<dots \o number \o comma \o string>>,
    <<Strnig>>, <<String>>,
    <<any, number>>, <<number, any>>, <<string, number>>,
    <<string, string \o comma \o dots \o number>>,
    <<number, number \o dots \o comma \o string>>,
    <<Strnig, number \o dots \o comma \o string>> }

\* signature maps of Spec
RegistrySigMaps == { <<int>>, <<number>>, <<IntCapital>> }

RECURSIVE SeqsUpTo(_, _)
SeqsUpTo(S, n) ==
  IF n = 0 THEN { <<>> }
  ELSE LET shorter == SeqsUpTo(S, n - 1)
       IN shorter \cup { Append(q, x) : q \in shorter, x \in S }

\* argument lists of SpecDispatch
ArgLists == SeqsUpTo(Values, MaxArgs)

\* argument lists of Spec
SmallArgLists == { <<>>, <<"1">>, <<"'a'">>, <<"true">> }

----------------------------------------------------------------------------
(* State and operations *)

NoConversions == [defined |-> FALSE, list |-> <<>>]

Init ==
  /\ types = << BuiltinTypes >>
  /\ ignore = << <<>> >>
  /\ conversions = << NoConversions >>
  /\ dispatchers = <<>>
  /\ last = [op |-> "init"]

Instances == 1..Len(types)

RECURSIVE Sum(_)
Sum(q) == IF q = <<>> THEN 0 ELSE Head(q) + Sum(Tail(q))

\* the state-changing operations that led to the state
OpCount ==
  (Len(types) - 1)
  + Sum([i \in Instances |-> Len(types[i]) - Len(BuiltinTypes)])
  + Sum([i \in Instances |->
           IF conversions[i].defined
           THEN 1 + Len(conversions[i].list) - Len(ExampleConversions) ELSE 0])
  + Len(dispatchers)

\* typed.create(): a new instance with registries of its own
Create ==
  /\ Len(types) < MaxInst
  /\ OpCount < MaxOps
  /\ types' = Append(types, BuiltinTypes)
  /\ ignore' = Append(ignore, <<>>)
  /\ conversions' = Append(conversions, NoConversions)
  /\ last' = [op |-> "create", inst |-> Len(types) + 1]
  /\ UNCHANGED dispatchers

\* one registry for all instances (_types outside create)
PushTypeShared(registries, i, entry) ==
  [j \in 1..Len(registries) |-> Append(registries[j], entry)]

\* unshift instead of push
PushTypeFront(registries, i, entry) ==
  [registries EXCEPT ![i] = <<entry>> \o @]

\* typed.types.push(type) on instance i
PushType(registries, i, entry) ==
  [registries EXCEPT ![i] = Append(@, entry)]

\* typed.addType(type) on instance i
AddTypeOp(i, type) ==
  IF \/ type.value = "null"
     \/ type.typeofName # "string"
     \/ type.typeofTest # "function"
  THEN /\ last' = [op |-> "addType", inst |-> i, input |-> type,
                   err |-> "TypeError"]
       /\ UNCHANGED <<types, ignore, conversions, dispatchers>>
  ELSE /\ types' = PushType(types, i, [name |-> type.name, test |-> type.test])
       /\ last' = [op |-> "addType", inst |-> i, input |-> type, err |-> "none"]
       /\ UNCHANGED <<ignore, conversions, dispatchers>>

AddType ==
  /\ OpCount < MaxOps
  /\ \E i \in Instances, type \in TypeInputs : AddTypeOp(i, type)

\* compose.conversions = [...]: the example's assignment of the property
SetConversions ==
  /\ OpCount < MaxOps
  /\ \E i \in Instances :
       /\ ~conversions[i].defined
       /\ conversions' = [conversions EXCEPT
                            ![i] = [defined |-> TRUE, list |-> ExampleConversions]]
       /\ last' = [op |-> "setConversions", inst |-> i]
  /\ UNCHANGED <<types, ignore, dispatchers>>

\* typed.addConversion(conversion) on instance i.  typed.conversions is set
\* nowhere in create(): until it is assigned, push is read from undefined
AddConversionOp(i, conversion) ==
  IF \/ conversion.value = "null"
     \/ conversion.typeofFrom # "string"
     \/ conversion.typeofTo # "string"
     \/ conversion.typeofConvert # "function"
  THEN /\ last' = [op |-> "addConversion", inst |-> i, input |-> conversion,
                   fresh |-> ~conversions[i].defined,
                   err |-> "TypeError", thrownBy |-> "addConversion"]
       /\ UNCHANGED <<types, ignore, conversions, dispatchers>>
  ELSE IF ~conversions[i].defined
  THEN /\ last' = [op |-> "addConversion", inst |-> i, input |-> conversion,
                   fresh |-> TRUE,
                   err |-> "TypeError", thrownBy |-> "undefined.push"]
       /\ UNCHANGED <<types, ignore, conversions, dispatchers>>
  ELSE /\ conversions' =
            [conversions EXCEPT
               ![i].list = Append(@, [from |-> conversion.from,
                                      to |-> conversion.to,
                                      convert |-> conversion.convert])]
       /\ last' = [op |-> "addConversion", inst |-> i, input |-> conversion,
                   fresh |-> FALSE, err |-> "none", thrownBy |-> "none"]
       /\ UNCHANGED <<types, ignore, dispatchers>>

AddConversion ==
  /\ OpCount < MaxOps
  /\ \E i \in Instances, conversion \in ConversionInputs :
       AddConversionOp(i, conversion)

\* the effect of typed(...), built being what createTypedFunction returned
\* or threw
Built(i, name, signatures, built) ==
  /\ dispatchers' = IF built.err.type = "none"
                    THEN Append(dispatchers, built.fn) ELSE dispatchers
  /\ last' = [op |-> "build", inst |-> i, name |-> name,
              signatures |-> signatures, err |-> built.err,
              disp |-> IF built.err.type = "none"
                       THEN Len(dispatchers) + 1 ELSE 0]
  /\ UNCHANGED <<types, ignore, conversions>>

\* typed(name, signatures) / typed(signatures) on instance i; the
\* implementations are plain functions, so that the one-argument form finds
\* no name to inherit
BuildOp(i, name, signatures) ==
  Built(i, name, signatures,
        createTypedFunction(types[i], ignore[i], i, name, signatures))

Build ==
  /\ OpCount < MaxOps
  /\ \E i \in Instances, signatures \in RegistrySigMaps :
       BuildOp(i, <<>>, signatures)

\* calling a dispatcher built earlier
CallOp(d, args) ==
  /\ last' = [op |-> "call", disp |-> d, args |-> args,
              result |-> CallOutcome(dispatchers[d],
                                     types[dispatchers[d].inst], args)]
  /\ UNCHANGED <<types, ignore, conversions, dispatchers>>

Call ==
  \E d \in 1..Len(dispatchers), args \in SmallArgLists : CallOp(d, args)

Next == Create \/ AddType \/ SetConversions \/ AddConversion \/ Build \/ Call

Spec == Init /\ [][Next]_vars

\* SpecDispatch: one dispatcher is built on the module's instance and then
\* called once (a call changes nothing a later call reads)
BuildOnce ==
  /\ dispatchers = <<>>
  /\ \E name \in Names, signatures \in SigMaps : BuildOp(1, name, signatures)

CallAny ==
  /\ last.op = "build"
  /\ \E d \in 1..Len(dispatchers), args \in ArgLists : CallOp(d, args)

NextDispatch == BuildOnce \/ CallAny

SpecDispatch == Init /\ [][NextDispatch]_vars

----------------------------------------------------------------------------
(* Properties of dispatch (SpecDispatch) *)

\* the dispatcher and the argument list of the call just made
Called == dispatchers[last.disp]

\* the parameters a signature text declares
Params(signature) == Split(signature, ",")

\* the predicate of the parameter text param on the module's instance
ParamPredicate(param) == parseParam(types[1], ignore[1], param).test

\* the implementations whose entry accepts the argument list
Accepting(d, args) ==
  { d.defs[k].fn : k \in { j \in 1..Len(d.defs) : testArgs(d.defs[j].test, args) } }

\* C1: a call invokes the implementation of the first entry, in the order of
\* the signature map, whose test accepts the arguments, and no later one.
FirstMatchWins ==
  (last.op = "call" /\ Accepting(Called, last.args) # {}) =>
    /\ last.result.err = "none"
    /\ last.result.fn = Min(Accepting(Called, last.args))

\* "any" before "number", a numeric argument: both accept, "any" is invoked
FirstMatchWinsWitness ==
  /\ last.op = "call"
  /\ Len(Called.defs) = 2
  /\ Called.defs[1].signature = any
  /\ Called.defs[2].signature = number
  /\ last.args = <<"1">>
  /\ Accepting(Called, last.args) = {1, 2}
  /\ last.result.fn = 1

\* a dispatcher of one signature without the variadic marker and with text
HasOneFixedSignature(d) ==
  /\ Len(d.defs) = 1
  /\ ~d.defs[1].varArg
  /\ d.defs[1].signature # <<>>

\* C2: a signature without marker declaring N >= 1 parameters accepts an
\* argument list iff its length is N and argument i satisfies parameter i.
FixedArityExact ==
  (last.op = "call" /\ HasOneFixedSignature(Called)) =>
    LET params == Params(Called.defs[1].signature)
    IN (last.result.err = "none") <=>
         /\ Len(last.args) = Len(params)
         /\ \A i \in 1..Len(params) : last.args[i] \in ParamPredicate(params[i])

\* "string, any" called with one string: the missing argument would satisfy
\* any, and the call is rejected
FixedArityExactWitness ==
  /\ last.op = "call"
  /\ HasOneFixedSignature(Called)
  /\ Called.defs[1].signature = string \o <<",">> \o any
  /\ last.args = <<"'a'">>
  /\ last.result.err = "Error"

HasOneVariadicSignature(d) ==
  /\ Len(d.defs) = 1
  /\ d.defs[1].varArg
  /\ LET params == Params(d.defs[1].signature)
     IN SubSeq(params[Len(params)], 1, 3) = dots

FirstTypeName(registry, x) ==
  LET S == { k \in 1..Len(registry) : x \in registry[k].test }
  IN IF S = {} THEN unknown ELSE registry[Min(S)].name

\* C4: a call no signature accepts fails with an error listing, per argument
\* and in argument order, the first registered type accepting it (or
\* unknown), with the dispatcher's name or unnamed; nothing is invoked.
NoMatchReportsActualTypes ==
  (last.op = "call" /\ Accepting(Called, last.args) = {}) =>
    /\ last.result.err = "Error"
    /\ last.result.fn = 0
    /\ last.result.message.typesList =
         Join([k \in 1..Len(last.args) |->
                 FirstTypeName(types[Called.inst], last.args[k])], <<",", " ">>)
    /\ last.result.message.function =
         (IF Called.name = <<>> THEN unnamed ELSE Called.name)

\* the unnamed dispatcher of "string" and "number" called with a boolean
NoMatchReportsActualTypesWitness ==
  /\ last.op = "call"
  /\ Len(Called.defs) = 2
  /\ Called.defs[1].signature = string
  /\ Called.defs[2].signature = number
  /\ Called.name = <<>>
  /\ last.args = <<"true">>
  /\ last.result.err = "Error"
  /\ last.result.message = [typesList |-> boolean, function |-> unnamed]

\* C8: the dispatcher built from the empty signature text accepts the empty
\* argument list and rejects every longer one.
EmptySignatureIsNullary ==
  (/\ last.op = "call"
   /\ Len(Called.defs) = 1
   /\ Called.defs[1].signature = <<>>) =>
    ((last.result.err = "none") <=> (last.args = <<>>))

\* the parameters of a signature, other than the last, holding the marker
MisplacedMarker(signature) ==
  LET params == Params(signature)
  IN \E k \in 1..(Len(params) - 1) : IndexOf(params[k], dots) # -1

\* the signatures of the build just made that have a misplaced marker
Misplaced == { k \in 1..Len(last.signatures) : MisplacedMarker(last.signatures[k]) }

\* C9 as stated: a map with a misplaced marker fails with a SyntaxError and
\* returns no dispatcher; without a misplaced marker, no SyntaxError.
MisplacedMarkerIsSyntaxError ==
  last.op = "build" =>
    /\ Misplaced # {} =>
         (last.err.type = "SyntaxError" /\ last.disp = 0 /\ dispatchers = <<>>)
    /\ Misplaced = {} => last.err.type # "SyntaxError"

\* C9, amended: a map with a misplaced marker fails to build and returns no
\* dispatcher; the error is the SyntaxError when every signature before the
\* first misplaced one compiles (otherwise the error of the first signature
\* that fails); without a misplaced marker, no SyntaxError.
MisplacedMarkerAbortsBuild ==
  last.op = "build" =>
    /\ Misplaced # {} =>
         /\ last.err.type # "none"
         /\ last.disp = 0
         /\ dispatchers = <<>>
         /\ (\A j \in 1..(Min(Misplaced) - 1) :
               parseParams(types[1], ignore[1], last.signatures[j]).err.type = "none")
              => last.err.type = "SyntaxError"
    /\ Misplaced = {} => last.err.type # "SyntaxError"

\* "number" then "number..., string": the SyntaxError, and no dispatcher
\* covering "number"
MisplacedMarkerAbortsBuildWitness ==
  /\ last.op = "build"
  /\ last.signatures = <<number, number \o dots \o comma \o string>>
  /\ last.err.type = "SyntaxError"
  /\ last.disp = 0
  /\ dispatchers = <<>>

----------------------------------------------------------------------------
(* Properties of the registries (Spec) *)

WellFormedConversion(c) ==
  /\ c.value = "object"
  /\ c.typeofFrom = "string"
  /\ c.typeofTo = "string"
  /\ c.typeofConvert = "function"

\* C5: on a freshly created instance, addConversion of a well-formed entry
\* completes without error and leaves the entry last in the conversion
\* registry; of a malformed entry it fails with a TypeError.
AddConversionOnFreshInstance ==
  (last.op = "addConversion" /\ last.fresh) =>
    IF WellFormedConversion(last.input)
    THEN /\ last.err = "none"
         /\ conversions[last.inst].list # <<>>
         /\ conversions[last.inst].list[Len(conversions[last.inst].list)] =
              [from |-> last.input.from, to |-> last.input.to,
               convert |-> last.input.convert]
    ELSE last.err = "TypeError"

\* C6: an addType on one instance appends to that instance's registry only:
\* a registry changes by nothing but its own instance's addType, and the
\* name added resolves there while its resolution elsewhere is unchanged.
InstancesIndependent ==
  [][ \A j \in Instances :
        /\ types'[j] # types[j] =>
             /\ last'.op = "addType"
             /\ last'.err = "none"
             /\ last'.inst = j
             /\ types'[j] = Append(types[j], [name |-> last'.input.name,
                                              test |-> last'.input.test])
             /\ findTest(types'[j], last'.input.name).err.type = "none"
        /\ (last'.op = "addType" /\ last'.inst # j) =>
             /\ findTest(types'[j], last'.input.name) =
                  findTest(types[j], last'.input.name)
             /\ ignore'[j] = ignore[j]
    ]_vars

\* two instances, int just added to one: it resolves there and is an
\* unknown type in the other
InstancesIndependentWitness ==
  /\ Len(types) = 2
  /\ last.op = "addType"
  /\ last.err = "none"
  /\ last.inst = 1
  /\ last.input.name = int
  /\ types[2] = BuiltinTypes
  /\ findTest(types[1], int).err.type = "none"
  /\ findTest(types[2], int).err.type = "TypeError"

\* C7: the outcome of calling a dispatcher already built, for every argument
\* list, is the same before and after every step of the instance
\* (addType and addConversion included), and the dispatcher is unchanged.
BuiltDispatchersFrozen ==
  [][ \A k \in 1..Len(dispatchers) :
        /\ dispatchers'[k] = dispatchers[k]
        /\ \A args \in SmallArgLists :
             CallOutcome(dispatchers'[k], types'[dispatchers[k].inst], args) =
             CallOutcome(dispatchers[k], types[dispatchers[k].inst], args)
    ]_vars

\* a type was just added to the instance of a dispatcher built before
BuiltDispatchersFrozenWitness ==
  /\ dispatchers # <<>>
  /\ last.op = "addType"
  /\ last.err = "none"
  /\ last.inst = dispatchers[1].inst
  /\ Len(types[last.inst]) > Len(BuiltinTypes)
  /\ CallOutcome(dispatchers[1], types[last.inst], <<"true">>).err = "Error"

\* the entries of the registry bearing the name
Named(registry, name) == { k \in 1..Len(registry) : registry[k].name = name }

\* C10: compiling a type name yields the test of the first entry of that
\* exact name, however many entries bear it; a name without entry fails with
\* an unknown-type error, hinted exactly when a registered name equals it
\* ignoring case; addType appends and keeps the earlier entries.
FirstRegisteredNameResolves ==
  /\ (last.op = "build" /\ Len(last.signatures) = 1) =>
       LET registry == types[last.inst]
           name == last.signatures[1]
       IN IF Named(registry, name) # {}
          THEN /\ last.err.type = "none"
               /\ dispatchers[last.disp].defs[1].test.tests[1] =
                    registry[Min(Named(registry, name))].test
          ELSE /\ last.err.type = "TypeError"
               /\ last.err.unknownType = name
               /\ last.err.hinted <=>
                    \E k \in 1..Len(registry) :
                      ToLowerCase(registry[k].name) = ToLowerCase(name)
  /\ (last.op = "addType" /\ last.err = "none") =>
       /\ SubSeq(types[last.inst], 1, Len(BuiltinTypes)) = BuiltinTypes
       /\ types[last.inst][Len(types[last.inst])] =
            [name |-> last.input.name, test |-> last.input.test]

\* number registered again with a test accepting strings: "number" compiled
\* afterwards still has the built-in test
FirstRegisteredNameResolvesWitness ==
  /\ last.op = "build"
  /\ last.signatures = <<number>>
  /\ Cardinality(Named(types[last.inst], number)) = 2
  /\ last.err.type = "none"
  /\ dispatchers[last.disp].defs[1].test.tests[1] = {"1", "2", "3"}

====
